---- MODULE Spec2Model ----
(***************************************************************************)
(* A model of blame (src/src/main.rs): the accumulation of `git blame      *)
(* --line-porcelain` output into per-author statistics                     *)
(* (collect_blame_stats), the rekeying of those statistics by GitHub user  *)
(* name (resolve_github_usernames), the ordering of the report (main) and  *)
(* the relative-time formatter (format_relative_time).                     *)
(***************************************************************************)
EXTENDS Integers, Sequences, FiniteSets, TLC

VARIABLES
    pc,          \* where the run is: "collect", "resolve", "report", "format", "done", "exit"
    files,       \* number of entries of `files` the loop of main has still to visit
    blame,       \* the outputs `git blame` gave for the files visited, in the order visited
    stats,       \* main's `stats`: HashMap<String, AuthorStats>, a function on the author keys
    gh,          \* args.gh
    author_to_gh,\* resolve_github_usernames' author_to_gh: HashMap<String, Option<String>>
    gh_calls,    \* how often get_github_username was called, per <<author, sha>> it was called for
    new_stats,   \* the map main goes on with: resolve_github_usernames' result, or `stats` itself
    authors,     \* main's `authors`: the sorted vector of (author, AuthorStats)
    timestamp,   \* the argument of format_relative_time
    now,         \* what Utc::now() returns inside format_relative_time: [secs, nanos]
    last_touch   \* the string format_relative_time returned

vars == <<pc, files, blame, stats, gh, author_to_gh, gh_calls, new_stats, authors, timestamp, now,
          last_touch>>

-----------------------------------------------------------------------------
(* Bounds of the model.                                                    *)

MaxBlocks == 1       \* blocks of one well-formed blame output (Spec)
MaxErrLines == 2     \* lines on the stdout of a git blame that failed (Spec)
MaxLines == 5        \* lines of one blame output of any form (SpecOneFile)
MaxFileBlocks == 2   \* blocks of the blame output of a run over one file (SpecBlocks)
MaxCount == 2        \* lines of one author in the maps resolution starts from (SpecResolve)
MaxTime == 1         \* latest time of an author in those maps (SpecResolve)
MaxSeconds == 130    \* ages up to so many seconds, second by second (SpecFormat)
MaxHours == 30       \* ages up to so many hours, at the turn of each hour (SpecFormat)
MaxDays == 800       \* ages up to so many days, at the turn of each day (SpecFormat)

-----------------------------------------------------------------------------
(* Option<T>: None is the empty sequence, Some(x) the sequence <<x>>.      *)

None == <<>>
Some(x) == <<x>>

(* The lines `stdout.lines()` yields.  A line is classified by the tests   *)
(* of the loop, in their order: forty hexadecimal digits at its start, the *)
(* prefix "author ", the prefix "author-time ", a leading tab.  `kind` is  *)
(* the first test the line passes and `text` what that branch reads: the   *)
(* first forty characters, or the rest after the prefix.                   *)
Shas == {"s1", "s2"}
AuthorNames == {"a", "b"}
TimeStrs == {<<"2">>, <<"-", "1">>, <<"1", "x">>}

ShaLines == [kind : {"sha"}, text : Shas]
AuthorLines == [kind : {"author"}, text : AuthorNames]
TimeLines == [kind : {"author-time"}, text : TimeStrs]
ContentLine == [kind |-> "content", text |-> ""]
OtherLine == [kind |-> "other", text |-> ""]
Lines == ShaLines \cup AuthorLines \cup TimeLines \cup {ContentLine, OtherLine}

(* The lines on the stdout of a git blame that failed.                     *)
ErrLines == AuthorLines \cup {ContentLine}

(* A block of `git blame --line-porcelain` as the loop reads it: the       *)
(* header with the commit, the author line, the author-time line, each of  *)
(* which an output may lack, and the content line that ends the block.     *)
Opt(S) == {<<>>} \cup {<<x>> : x \in S}
BlocksOf(times) == [sha : Opt(Shas), author : Opt(AuthorNames), time : Opt(times)]

BlockLines(block) ==
    (IF block.sha = <<>> THEN <<>> ELSE <<[kind |-> "sha", text |-> block.sha[1]]>>)
    \o (IF block.author = <<>> THEN <<>> ELSE <<[kind |-> "author", text |-> block.author[1]]>>)
    \o (IF block.time = <<>> THEN <<>> ELSE <<[kind |-> "author-time", text |-> block.time[1]]>>)
    \o <<ContentLine>>

RECURSIVE Porcelain(_)
Porcelain(blocks) ==
    IF blocks = <<>> THEN <<>> ELSE BlockLines(Head(blocks)) \o Porcelain(Tail(blocks))

-----------------------------------------------------------------------------
(* str::parse::<i64>: an optional sign, then one digit or more and nothing *)
(* else; anything different is an Err.                                     *)

DigitChars == <<"0", "1", "2", "3", "4", "5", "6", "7", "8", "9">>
IsDigit(c) == \E i \in 1..10 : DigitChars[i] = c
DigitVal(c) == (CHOOSE i \in 1..10 : DigitChars[i] = c) - 1

RECURSIVE DigitsVal(_)
DigitsVal(s) ==
    IF s = <<>> THEN 0
    ELSE 10 * DigitsVal(SubSeq(s, 1, Len(s) - 1)) + DigitVal(s[Len(s)])

ParseI64(s) ==
    LET signed == s # <<>> /\ s[1] \in {"+", "-"}
        digits == IF signed THEN Tail(s) ELSE s
    IN IF digits = <<>> \/ \E i \in 1..Len(digits) : ~IsDigit(digits[i])
       THEN [ok |-> FALSE, val |-> 0]
       ELSE [ok |-> TRUE,
             val |-> IF signed /\ s[1] = "-" THEN 0 - DigitsVal(digits) ELSE DigitsVal(digits)]

-----------------------------------------------------------------------------
(* AuthorStats and the map of them.                                        *)

DefaultStats == [lines |-> 0, last_commit_time |-> 0, commits |-> {}]

(* A faulty variant of EntryOrDefault: the entry is made afresh each time. *)
EntryAlwaysDefault(map, key) == DefaultStats

(* stats.entry(key).or_default()                                           *)
EntryOrDefault(map, key) == IF key \in DOMAIN map THEN map[key] ELSE DefaultStats

Insert(map, key, value) ==
    [k \in DOMAIN map \cup {key} |-> IF k = key THEN value ELSE map[k]]

EmptyMap == [k \in {} |-> DefaultStats]

(* A faulty variant of CountLine: the time of the line replaces the        *)
(* entry's.                                                                *)
CountLineOverwriteTime(entry, current_time, current_sha) ==
    [lines |-> entry.lines + 1,
     last_commit_time |-> current_time,
     commits |-> IF current_sha # None THEN entry.commits \cup {current_sha[1]}
                 ELSE entry.commits]

(* What a content line does to the entry of its author.                    *)
CountLine(entry, current_time, current_sha) ==
    [lines |-> entry.lines + 1,
     last_commit_time |-> IF current_time > entry.last_commit_time
                          THEN current_time ELSE entry.last_commit_time,
     commits |-> IF current_sha # None THEN entry.commits \cup {current_sha[1]}
                 ELSE entry.commits]

(* A faulty variant of ParseLine: the author is forgotten once its line is *)
(* counted, so a block without an author line counts for nobody.           *)
ParseLineResetAuthor(line, loc) ==
    IF line.kind = "sha" THEN [loc EXCEPT !.current_sha = Some(line.text)]
    ELSE IF line.kind = "author" THEN [loc EXCEPT !.current_author = Some(line.text)]
    ELSE IF line.kind = "author-time"
         THEN LET time == ParseI64(line.text)
              IN IF time.ok THEN [loc EXCEPT !.current_time = time.val] ELSE loc
    ELSE IF line.kind = "content"
         THEN IF loc.current_author # None
              THEN LET author == loc.current_author[1]
                       entry == EntryOrDefault(loc.stats, author)
                   IN [loc EXCEPT !.stats = Insert(loc.stats, author,
                                      CountLine(entry, loc.current_time, loc.current_sha)),
                                  !.current_author = None]
              ELSE loc
    ELSE loc

(* One turn of the loop over stdout.lines(): `loc` holds the map and the   *)
(* three locals current_author, current_time, current_sha.                 *)
ParseLine(line, loc) ==
    IF line.kind = "sha" THEN [loc EXCEPT !.current_sha = Some(line.text)]
    ELSE IF line.kind = "author" THEN [loc EXCEPT !.current_author = Some(line.text)]
    ELSE IF line.kind = "author-time"
         THEN LET time == ParseI64(line.text)
              IN IF time.ok THEN [loc EXCEPT !.current_time = time.val] ELSE loc
    ELSE IF line.kind = "content"
         THEN IF loc.current_author # None
              THEN LET author == loc.current_author[1]
                       entry == EntryOrDefault(loc.stats, author)
                   IN [loc EXCEPT !.stats = Insert(loc.stats, author,
                                      CountLine(entry, loc.current_time, loc.current_sha))]
              ELSE loc
    ELSE loc

RECURSIVE ParseLines(_, _)
ParseLines(stdout, loc) ==
    IF stdout = <<>> THEN loc
    ELSE ParseLines(Tail(stdout), ParseLine(Head(stdout), loc))

(* A faulty variant of CollectBlameStats: the exit status is looked at     *)
(* after the stdout has been counted.                                      *)
CollectBlameStatsLateStatus(output, map) ==
    [ok |-> output.success,
     stats |-> ParseLines(output.stdout,
                          [stats |-> map, current_author |-> None,
                           current_time |-> 0, current_sha |-> None]).stats]

(* collect_blame_stats for a file whose git blame gave `output`: whether   *)
(* it returned Ok, and the map it leaves.                                  *)
CollectBlameStats(output, map) ==
    IF ~output.success THEN [ok |-> FALSE, stats |-> map]
    ELSE [ok |-> TRUE,
          stats |-> ParseLines(output.stdout,
                               [stats |-> map, current_author |-> None,
                                current_time |-> 0, current_sha |-> None]).stats]

-----------------------------------------------------------------------------
(* main, up to the end of the loop over the files.                         *)

InitCollect(counts) ==
    /\ pc = "collect"
    /\ files \in counts
    /\ blame = <<>>
    /\ stats = EmptyMap
    /\ gh = FALSE    \* the loop does not read the flag
    /\ author_to_gh = <<>>
    /\ gh_calls = <<>>
    /\ new_stats = EmptyMap
    /\ authors = <<>>
    /\ timestamp = 0
    /\ now = [secs |-> 0, nanos |-> 0]
    /\ last_touch = ""

(* One turn of `for file in &files`, git blame giving `output`: an Err is  *)
(* reported and the loop goes on.                                          *)
Visit(output) ==
    /\ blame' = Append(blame, output)
    /\ stats' = CollectBlameStats(output, stats).stats
    /\ files' = files - 1
    /\ UNCHANGED <<pc, gh, author_to_gh, gh_calls, new_stats, authors, timestamp, now, last_touch>>

(* A turn of the loop on an output of any lines.                           *)
CollectFile(maxlines, maxerrlines) ==
    /\ pc = "collect"
    /\ files > 0
    /\ \E success \in BOOLEAN :
       \E n \in 0..(IF success THEN maxlines ELSE maxerrlines) :
       \E stdout \in [1..n -> IF success THEN Lines ELSE ErrLines] :
          Visit([success |-> success, stdout |-> stdout])

(* A turn of the loop on a well-formed output whose author-time lines     *)
(* hold one of `times`, or on a failure.                                   *)
CollectPorcelainFile(maxblocks, maxerrlines, times) ==
    /\ pc = "collect"
    /\ files > 0
    /\ \/ \E n \in 0..maxblocks : \E blocks \in [1..n -> BlocksOf(times)] :
             Visit([success |-> TRUE, stdout |-> Porcelain(blocks)])
       \/ \E n \in 0..maxerrlines : \E stdout \in [1..n -> ErrLines] :
             Visit([success |-> FALSE, stdout |-> stdout])

(* The loop is over: an empty map ends the run with exit(1).               *)
EndCollect ==
    /\ pc = "collect"
    /\ files = 0
    /\ pc' = IF DOMAIN stats = {} THEN "exit" ELSE "resolve"
    /\ UNCHANGED <<files, blame, stats, gh, author_to_gh, gh_calls, new_stats, authors, timestamp, now,
                   last_touch>>

(* Runs over one file or two, each with a well-formed blame output or a    *)
(* failure of git blame; the author times are integers.                    *)
IntTimeStrs == {<<"2">>, <<"-", "1">>}

Init == InitCollect({1, 2})

Next ==
    \/ CollectPorcelainFile(MaxBlocks, MaxErrLines, IntTimeStrs)
    \/ EndCollect

Spec == Init /\ [][Next]_vars

(* Runs over one file whose blame output holds any lines.                  *)
InitOneFile == InitCollect({1})

NextOneFile ==
    \/ CollectFile(MaxLines, 0)
    \/ EndCollect

SpecOneFile == InitOneFile /\ [][NextOneFile]_vars

(* Runs over one file with a well-formed blame output of several blocks.   *)
NextBlocks ==
    \/ CollectPorcelainFile(MaxFileBlocks, 0, TimeStrs)
    \/ EndCollect

SpecBlocks == InitOneFile /\ [][NextBlocks]_vars

-----------------------------------------------------------------------------
(* resolve_github_usernames.                                               *)

Users == {"gh1", "b"}

(* The orders in which a HashMap with the keys S may be iterated.          *)
IterOrders(S) ==
    {order \in [1..Cardinality(S) -> S] : \A i, j \in 1..Cardinality(S) : order[i] = order[j] => i = j}

BagAdd(bag, x) ==
    [y \in DOMAIN bag \cup {x} |-> IF y = x THEN (IF x \in DOMAIN bag THEN bag[x] + 1 ELSE 1) ELSE bag[y]]

RECURSIVE BagAddAll(_, _, _)
BagAddAll(bag, author, shas) ==
    IF shas = {} THEN bag
    ELSE LET sha == CHOOSE x \in shas : TRUE
         IN BagAddAll(BagAdd(bag, <<author, sha>>), author, shas \ {sha})

(* A faulty variant of LookupAuthor: every commit of the author is looked *)
(* up.                                                                     *)
LookupAuthorEveryCommit(acc, author, author_stats, first_commit, answer) ==
    IF author \in DOMAIN acc.author_to_gh THEN acc
    ELSE IF author_stats.commits # {}
         THEN [author_to_gh |-> [a \in DOMAIN acc.author_to_gh \cup {author} |->
                                   IF a = author THEN answer[first_commit[author]]
                                   ELSE acc.author_to_gh[a]],
               calls |-> BagAddAll(acc.calls, author, author_stats.commits)]
         ELSE acc

(* One turn of the first loop: first_commit[author] is what                *)
(* commits.iter().next() yields, `answer` what get_github_username returns *)
(* for each commit.                                                        *)
LookupAuthor(acc, author, author_stats, first_commit, answer) ==
    IF author \in DOMAIN acc.author_to_gh THEN acc
    ELSE IF author_stats.commits # {}
         THEN [author_to_gh |-> [a \in DOMAIN acc.author_to_gh \cup {author} |->
                                   IF a = author THEN answer[first_commit[author]]
                                   ELSE acc.author_to_gh[a]],
               calls |-> BagAdd(acc.calls, <<author, first_commit[author]>>)]
         ELSE acc

RECURSIVE LookupAuthors(_, _, _, _, _)
LookupAuthors(order, map, first_commit, answer, acc) ==
    IF order = <<>> THEN acc
    ELSE LookupAuthors(Tail(order), map, first_commit, answer,
                       LookupAuthor(acc, Head(order), map[Head(order)], first_commit, answer))

(* A faulty variant of MergeEntry: the statistics of the author replace    *)
(* what the key holds.                                                     *)
MergeEntryOverwrite(entry, author_stats) == author_stats

(* What the second loop does to the entry of the key of an author.         *)
MergeEntry(entry, author_stats) ==
    [lines |-> entry.lines + author_stats.lines,
     last_commit_time |-> IF author_stats.last_commit_time > entry.last_commit_time
                          THEN author_stats.last_commit_time ELSE entry.last_commit_time,
     commits |-> entry.commits \cup author_stats.commits]

(* author_to_gh.get(&author).and_then(|u| u.clone()).unwrap_or(author)     *)
KeyOf(map, author) ==
    IF author \in DOMAIN map /\ map[author] # None THEN map[author][1] ELSE author

RECURSIVE RebuildStats(_, _, _, _)
RebuildStats(order, map, a2g, acc) ==
    IF order = <<>> THEN acc
    ELSE LET author == Head(order)
             key == KeyOf(a2g, author)
         IN RebuildStats(Tail(order), map, a2g,
                         Insert(acc, key, MergeEntry(EntryOrDefault(acc, key), map[author])))

(* The maps main can hold when the loop over the files is over: an author  *)
(* has a line or more, a latest time of 0 or more, and no more commits     *)
(* than lines.                                                             *)
ResolveAuthors == {"a", "b", "c"}
ResolveEntries ==
    {e \in [lines : 1..MaxCount, last_commit_time : 0..MaxTime, commits : SUBSET Shas] :
        Cardinality(e.commits) <= e.lines}

InitResolve ==
    /\ pc = "resolve"
    /\ files = 0
    /\ blame = <<>>
    /\ \E keys \in SUBSET ResolveAuthors : keys # {} /\ stats \in [keys -> ResolveEntries]
    /\ gh \in BOOLEAN
    /\ author_to_gh = <<>>
    /\ gh_calls = <<>>
    /\ new_stats = EmptyMap
    /\ authors = <<>>
    /\ timestamp = 0
    /\ now = [secs |-> 0, nanos |-> 0]
    /\ last_touch = ""

(* --gh with a GitHub remote: resolve_github_usernames(stats, owner, repo). *)
(* Both loops iterate the one map `stats`, in its one order.               *)
ResolveGithubUsernames ==
    /\ pc = "resolve"
    /\ gh
    /\ \E order \in IterOrders(DOMAIN stats) :
       \E first_commit \in [{a \in DOMAIN stats : stats[a].commits # {}} -> Shas] :
       \E answer \in [Shas -> Opt(Users)] :
          /\ \A a \in DOMAIN first_commit : first_commit[a] \in stats[a].commits
          /\ LET looked == LookupAuthors(order, stats, first_commit, answer,
                                         [author_to_gh |-> <<>>, calls |-> <<>>])
             IN /\ author_to_gh' = looked.author_to_gh
                /\ gh_calls' = looked.calls
                /\ new_stats' = RebuildStats(order, stats, looked.author_to_gh, EmptyMap)
    /\ pc' = "report"
    /\ UNCHANGED <<files, blame, stats, gh, authors, timestamp, now, last_touch>>

(* --gh without a GitHub remote: get_github_repo is None, exit(1).         *)
NoGithubRepo ==
    /\ pc = "resolve"
    /\ gh
    /\ pc' = "exit"
    /\ UNCHANGED <<files, blame, stats, gh, author_to_gh, gh_calls, new_stats, authors, timestamp, now,
                   last_touch>>

(* Without --gh main goes on with `stats` as it is.                        *)
KeepAuthorNames ==
    /\ pc = "resolve"
    /\ ~gh
    /\ new_stats' = stats
    /\ pc' = "report"
    /\ UNCHANGED <<files, blame, stats, gh, author_to_gh, gh_calls, authors, timestamp, now, last_touch>>

-----------------------------------------------------------------------------
(* main's report: stats.into_iter().collect(), then a stable sort by       *)
(* b.1.lines.cmp(&a.1.lines).                                              *)

(* Where a stable sort puts x in the sorted `sorted`: behind every element *)
(* that does not compare greater than it.                                  *)
RECURSIVE InsertSorted(_, _)
InsertSorted(sorted, x) ==
    IF sorted = <<>> THEN <<x>>
    ELSE IF Head(sorted)[2].lines >= x[2].lines
         THEN <<Head(sorted)>> \o InsertSorted(Tail(sorted), x)
         ELSE <<x>> \o sorted

RECURSIVE SortByLines(_, _)
SortByLines(unsorted, sorted) ==
    IF unsorted = <<>> THEN sorted
    ELSE SortByLines(Tail(unsorted), InsertSorted(sorted, Head(unsorted)))

(* The vector main sorts and prints when the map is iterated in `order`.   *)
SortedAuthors(map, order) ==
    SortByLines([i \in 1..Len(order) |-> <<order[i], map[order[i]]>>], <<>>)

Report ==
    /\ pc = "report"
    /\ \E order \in IterOrders(DOMAIN new_stats) : authors' = SortedAuthors(new_stats, order)
    /\ pc' = "done"
    /\ UNCHANGED <<files, blame, stats, gh, author_to_gh, gh_calls, new_stats, timestamp, now,
                   last_touch>>

NextResolve ==
    \/ ResolveGithubUsernames
    \/ NoGithubRepo
    \/ KeepAuthorNames
    \/ Report

SpecResolve == InitResolve /\ [][NextResolve]_vars

-----------------------------------------------------------------------------
(* format_relative_time.                                                   *)

(* Rust's i64 division: the quotient is cut off towards zero.              *)
TruncDiv(a, b) == IF a >= 0 THEN a \div b ELSE 0 - ((0 - a) \div b)

(* now.signed_duration_since(dt) in whole seconds, as num_seconds() gives  *)
(* it: dt has no fraction of a second, `now` may have one, and a negative  *)
(* duration is cut off towards zero too.                                   *)
NumSeconds(ts, current) ==
    IF current.secs - ts < 0 /\ current.nanos > 0 THEN current.secs - ts + 1
    ELSE current.secs - ts

Plural(n) == IF n = 1 THEN "" ELSE "s"

(* A faulty variant of IsJustNow: one whole minute is not "just now".      *)
IsJustNowUnderOneMinute(minutes) == minutes < 1

IsJustNow(minutes) == minutes <= 1

FormatRelativeTime(ts, current) ==
    LET seconds == NumSeconds(ts, current)
        days == TruncDiv(seconds, 86400)
        hours == TruncDiv(seconds, 3600)
        minutes == TruncDiv(seconds, 60)
        weeks == TruncDiv(days, 7)
        months == TruncDiv(days, 30)
        years == TruncDiv(days, 365)
    IN IF days = 0
       THEN IF hours = 0
            THEN IF IsJustNow(minutes) THEN "just now"
                 ELSE ToString(minutes) \o " minutes ago"
            ELSE ToString(hours) \o " hours ago"
       ELSE IF days = 1 THEN "yesterday"
       ELSE IF days < 7 THEN ToString(days) \o " days ago"
       ELSE IF days < 30 THEN ToString(weeks) \o " week" \o Plural(weeks) \o " ago"
       ELSE IF days < 365 THEN ToString(months) \o " month" \o Plural(months) \o " ago"
       ELSE ToString(years) \o " year" \o Plural(years) \o " ago"

(* The ages the formatter is tried on, in seconds; a negative one is a     *)
(* timestamp in the future.                                                *)
Ages ==
    ((0 - MaxSeconds)..MaxSeconds)
    \cup {sign * (h * 3600 + o) : sign \in {1, -1}, h \in 1..MaxHours, o \in {-1, 0}}
    \cup {sign * (d * 86400 + o) : sign \in {1, -1}, d \in 1..MaxDays, o \in {-1, 0}}

InitFormat ==
    /\ pc = "format"
    /\ files = 0
    /\ blame = <<>>
    /\ stats = EmptyMap
    /\ gh = FALSE
    /\ author_to_gh = <<>>
    /\ gh_calls = <<>>
    /\ new_stats = EmptyMap
    /\ authors = <<>>
    /\ now \in [secs : {1700000000}, nanos : {0, 1}]
    /\ \E age \in Ages : timestamp = now.secs - age
    /\ last_touch = ""

Format ==
    /\ pc = "format"
    /\ last_touch' = FormatRelativeTime(timestamp, now)
    /\ pc' = "done"
    /\ UNCHANGED <<files, blame, stats, gh, author_to_gh, gh_calls, new_stats, authors, timestamp, now>>

NextFormat == Format

SpecFormat == InitFormat /\ [][NextFormat]_vars

-----------------------------------------------------------------------------
(* What a blame output says, read off its text alone.                      *)

MaxOf(S) == CHOOSE x \in S : \A y \in S : y <= x

ContentIdx(text) == {i \in 1..Len(text) : text[i].kind = "content"}

(* The author line seen last before line i, if any.                        *)
AuthorIdx(text, i) == {j \in 1..(i - 1) : text[j].kind = "author"}
SeenAuthor(text, i) ==
    IF AuthorIdx(text, i) = {} THEN None ELSE Some(text[MaxOf(AuthorIdx(text, i))].text)

(* The content lines that follow an author line naming a.                  *)
LinesOf(text, a) == {i \in ContentIdx(text) : SeenAuthor(text, i) = Some(a)}

(* The content lines whose block has no author line of its own: the lines  *)
(* back to the previous content line hold none, and an earlier one exists. *)
BlockStart(text, i) ==
    LET earlier == {k \in ContentIdx(text) : k < i}
    IN IF earlier = {} THEN 1 ELSE MaxOf(earlier) + 1
CarriedIdx(text) ==
    {i \in ContentIdx(text) :
        /\ AuthorIdx(text, i) # {}
        /\ \A j \in BlockStart(text, i)..(i - 1) : text[j].kind # "author"}

(* The author-time line seen last before line i, if any.                   *)
TimeIdx(text, i) == {j \in 1..(i - 1) : text[j].kind = "author-time"}

(* The time of line i when a value that does not parse counts as 0.        *)
LenientTime(text, i) ==
    IF TimeIdx(text, i) = {} THEN 0
    ELSE LET time == ParseI64(text[MaxOf(TimeIdx(text, i))].text)
         IN IF time.ok THEN time.val ELSE 0

(* The time of line i when a value that does not parse is passed over: the *)
(* value of the last author-time line before i that parses, 0 without one. *)
ParsedTimeIdx(text, i) == {j \in TimeIdx(text, i) : ParseI64(text[j].text).ok}
CarriedTime(text, i) ==
    IF ParsedTimeIdx(text, i) = {} THEN 0
    ELSE ParseI64(text[MaxOf(ParsedTimeIdx(text, i))].text).val

LinesCount(map, a) == IF a \in DOMAIN map THEN map[a].lines ELSE 0

RECURSIVE SumLines(_, _)
SumLines(map, keys) ==
    IF keys = {} THEN 0
    ELSE LET k == CHOOSE x \in keys : TRUE
         IN map[k].lines + SumLines(map, keys \ {k})
TotalLines(map) == SumLines(map, DOMAIN map)

-----------------------------------------------------------------------------
(* The content lines that follow an author line of their own output.      *)
Attributable(text) == {i \in ContentIdx(text) : AuthorIdx(text, i) # {}}

(* The stdouts of the outputs of `log` whose git blame succeeded.          *)
RECURSIVE OkTexts(_)
OkTexts(log) ==
    IF log = <<>> THEN <<>>
    ELSE (IF Head(log).success THEN <<Head(log).stdout>> ELSE <<>>) \o OkTexts(Tail(log))

RECURSIVE SumOver(_, _)
SumOver(Count(_), texts) ==
    IF texts = <<>> THEN 0 ELSE Count(Head(texts)) + SumOver(Count, Tail(texts))

ContentCount(text) == Cardinality(ContentIdx(text))
AttributableCount(text) == Cardinality(Attributable(text))

(* The map the loop of collect_blame_stats leaves when it reads `texts`,   *)
(* one after the other, into `map`.                                        *)
RECURSIVE Accumulate(_, _)
Accumulate(texts, map) ==
    IF texts = <<>> THEN map
    ELSE Accumulate(Tail(texts),
                    ParseLines(Head(texts),
                               [stats |-> map, current_author |-> None,
                                current_time |-> 0, current_sha |-> None]).stats)

-----------------------------------------------------------------------------
(* C1. Conservation, as claimed: the lines of all authors add up to the    *)
(* number of content lines of the outputs read.                            *)
C1_ConservationAsClaimed ==
    TotalLines(stats) = SumOver(ContentCount, OkTexts(blame))

(* C1. Conservation, amended: the lines of all authors add up to the       *)
(* number of content lines that follow an author line of their own output; *)
(* a content line before the first author line of its file is not counted. *)
C1_Conservation ==
    TotalLines(stats) = SumOver(AttributableCount, OkTexts(blame))

(* Two files were read: the first gives author "a" a line, the content     *)
(* line of the second has no author line before it and is not counted.     *)
C1_Witness ==
    /\ Len(blame) = 2
    /\ blame[1].success /\ blame[2].success
    /\ AttributableCount(blame[1].stdout) = 1
    /\ ContentCount(blame[2].stdout) = 1 /\ AttributableCount(blame[2].stdout) = 0
    /\ TotalLines(stats) = 1

(* C4. Order independence: when two files were read, reading their outputs *)
(* in the other order into an empty map leaves the same map.               *)
C4_OrderIndependence ==
    (pc = "collect" /\ Len(blame) = 2) =>
        stats = CollectBlameStats(blame[1], CollectBlameStats(blame[2], EmptyMap).stats).stats

(* Two different outputs were read that both count for author "a", with    *)
(* different commits and different times.                                  *)
C4_Witness ==
    /\ Len(blame) = 2
    /\ blame[1].success /\ blame[2].success
    /\ blame[1].stdout # blame[2].stdout
    /\ "a" \in DOMAIN stats
    /\ stats["a"].lines = 2
    /\ stats["a"].commits = Shas
    /\ stats["a"].last_commit_time = 2
    /\ \E i \in 1..Len(blame[2].stdout) :
          blame[2].stdout[i] = [kind |-> "author-time", text |-> <<"-", "1">>]

(* C9. A file whose git blame fails is passed over: at every point of the  *)
(* run the map is what the outputs of the files that succeeded leave, read *)
(* in their order into an empty map, and the loop ends only when every     *)
(* file was visited.                                                       *)
C9_FailureSkipped ==
    /\ stats = Accumulate(OkTexts(blame), EmptyMap)
    /\ pc # "collect" => files = 0

(* The git blame of the first of two files failed with lines on its stdout *)
(* that would have counted, and the second file was read and counted.      *)
C9_Witness ==
    /\ Len(blame) = 2
    /\ ~blame[1].success /\ AttributableCount(blame[1].stdout) = 1
    /\ blame[2].success /\ AttributableCount(blame[2].stdout) = 1
    /\ TotalLines(stats) = 1
    /\ pc = "resolve"

(* C2. Block carry-over: in the blame output of a file, every content line *)
(* counts for the author named by the author line seen last before it, so  *)
(* the line of a block without an author line counts, once, for the author *)
(* of the block before it and for nobody else.                             *)
C2_BlockCarryOver ==
    blame # <<>> =>
        \A a \in AuthorNames :
            LinesCount(stats, a) = Cardinality(LinesOf(blame[1].stdout, a))

(* A file was read in which a block without an author line follows a block *)
(* of author "a", after a line of author "b" was counted.                  *)
C2_Witness ==
    /\ blame # <<>>
    /\ \E i \in CarriedIdx(blame[1].stdout) : SeenAuthor(blame[1].stdout, i) = Some("a")
    /\ LinesCount(stats, "a") >= 2
    /\ LinesCount(stats, "b") = 1

(* C3. Lenient timestamp, as claimed: in an output whose blocks all name   *)
(* their author, a content line whose author-time does not parse is        *)
(* counted once and with the time 0, so the latest time of an author is    *)
(* the largest of 0 and the lenient times of its lines.                    *)
C3_LenientTimestamp ==
    (blame # <<>> /\ CarriedIdx(blame[1].stdout) = {}
                 /\ Attributable(blame[1].stdout) = ContentIdx(blame[1].stdout)) =>
        \A a \in DOMAIN stats :
            /\ stats[a].lines = Cardinality(LinesOf(blame[1].stdout, a))
            /\ stats[a].last_commit_time =
                  MaxOf({0} \cup {LenientTime(blame[1].stdout, i) : i \in LinesOf(blame[1].stdout, a)})

(* C10. Latest touch, as claimed: last_commit_time is the largest of the   *)
(* times of the lines counted for the author.                              *)
C10_LatestTouch ==
    blame # <<>> =>
        \A a \in DOMAIN stats :
            stats[a].last_commit_time =
                MaxOf({CarriedTime(blame[1].stdout, i) : i \in LinesOf(blame[1].stdout, a)})

-----------------------------------------------------------------------------
(* What resolution has to give, read off `stats` and author_to_gh.         *)

Resolved == gh /\ pc \in {"report", "done"}

MergedInto(key) == {a \in DOMAIN stats : KeyOf(author_to_gh, a) = key}

RECURSIVE SumLinesOf(_)
SumLinesOf(keys) ==
    IF keys = {} THEN 0
    ELSE LET k == CHOOSE x \in keys : TRUE
         IN stats[k].lines + SumLinesOf(keys \ {k})

RECURSIVE SumCalls(_)
SumCalls(pairs) ==
    IF pairs = {} THEN 0
    ELSE LET p == CHOOSE x \in pairs : TRUE
         IN gh_calls[p] + SumCalls(pairs \ {p})
CallsFor(a) == SumCalls({p \in DOMAIN gh_calls : p[1] = a})

(* C5. Merge on collision: after resolve_github_usernames the new map has  *)
(* one entry per key the authors resolve to, a user name or the author's   *)
(* own string; its lines are the sum, its latest time the maximum and its  *)
(* commits the union of those of the authors that resolve to the key.      *)
C5_MergeOnCollision ==
    Resolved =>
        /\ DOMAIN new_stats = {KeyOf(author_to_gh, a) : a \in DOMAIN stats}
        /\ \A key \in DOMAIN new_stats :
              /\ new_stats[key].lines = SumLinesOf(MergedInto(key))
              /\ new_stats[key].last_commit_time =
                    MaxOf({stats[a].last_commit_time : a \in MergedInto(key)})
              /\ new_stats[key].commits = UNION {stats[a].commits : a \in MergedInto(key)}

(* Three authors with different statistics end under the key "b": "a" and  *)
(* "c" resolve to the user "b", and the author "b" keeps its own string.   *)
C5_Witness ==
    /\ Resolved
    /\ MergedInto("b") = {"a", "b", "c"}
    /\ author_to_gh = [a |-> Some("b"), c |-> Some("b")]
    /\ stats["a"].lines # stats["b"].lines
    /\ stats["a"].last_commit_time < stats["c"].last_commit_time
    /\ stats["a"].commits # stats["c"].commits
    /\ DOMAIN new_stats = {"b"}

(* C6. Memoized resolution: one call of resolve_github_usernames calls     *)
(* get_github_username once for each author that has a commit, for one of *)
(* the commits of that author, and never for an author without commits.    *)
C6_MemoizedResolution ==
    Resolved =>
        /\ \A a \in DOMAIN stats : CallsFor(a) = IF stats[a].commits # {} THEN 1 ELSE 0
        /\ \A p \in DOMAIN gh_calls : p[1] \in DOMAIN stats /\ p[2] \in stats[p[1]].commits

(* An author with two commits was looked up once, an author without        *)
(* commits not at all.                                                     *)
C6_Witness ==
    /\ Resolved
    /\ \E a \in DOMAIN stats : stats[a].commits = Shas /\ CallsFor(a) = 1
    /\ \E a \in DOMAIN stats : stats[a].commits = {} /\ CallsFor(a) = 0

(* C7. Stable ordering, as claimed: the report lists the authors by        *)
(* falling lines, and it is the same list in whatever order the map is     *)
(* iterated.                                                               *)
C7_StableOrdering ==
    pc = "done" =>
        /\ \A i \in 1..(Len(authors) - 1) : authors[i][2].lines >= authors[i + 1][2].lines
        /\ \A order \in IterOrders(DOMAIN new_stats) : authors = SortedAuthors(new_stats, order)

-----------------------------------------------------------------------------
(* The age format_relative_time was called on, in seconds.                 *)
Age == now.secs - timestamp
Formatted == pc = "done" /\ now.secs > 0

(* C8. Formatter boundaries, as claimed.                                   *)
C8_BoundariesAsClaimed ==
    Formatted =>
        /\ Age = 59 => last_touch = "just now"
        /\ Age = 90 => last_touch = "1 minutes ago"
        /\ Age = 8 * 86400 => last_touch = "1 week ago"
        /\ Age = 40 * 86400 => last_touch = "1 month ago"
        /\ Age = 400 * 86400 => last_touch = "1 year ago"

(* C8. Formatter boundaries, amended: 90 seconds are one whole minute and  *)
(* read "just now" like 59 seconds; minutes are counted from two on.  The  *)
(* counts are the quotients cut off to whole units.                        *)
C8_Boundaries ==
    Formatted =>
        /\ Age = 59 => last_touch = "just now"
        /\ Age = 90 => last_touch = "just now"
        /\ Age = 120 => last_touch = "2 minutes ago"
        /\ Age = 8 * 86400 => last_touch = "1 week ago"
        /\ Age = 40 * 86400 => last_touch = "1 month ago"
        /\ Age = 400 * 86400 => last_touch = "1 year ago"
        /\ (Age >= 120 /\ Age < 3600) => last_touch = ToString(Age \div 60) \o " minutes ago"
        /\ (Age >= 14 * 86400 /\ Age < 30 * 86400) =>
              last_touch = ToString(Age \div (7 * 86400)) \o " weeks ago"
        /\ (Age >= 60 * 86400 /\ Age < 365 * 86400) =>
              last_touch = ToString(Age \div (30 * 86400)) \o " months ago"
        /\ (Age >= 730 * 86400) => last_touch = ToString(Age \div (365 * 86400)) \o " years ago"

(* The formatter was called on a timestamp 90 seconds old.                 *)
C8_Witness ==
    Formatted /\ Age = 90 /\ last_touch = "just now"

====
